---------------------------- MODULE Spec2Model ----------------------------
(***************************************************************************)
(* Model of tofu's regularised linear inversion engine                     *)
(* (src/tofu/data/_inversions_comp.py): compute_inversions, the time loop  *)
(* _compute_inv_loop and the four augmented-Tikhonov backends              *)
(* inv_linear_augTikho_{v1, v1_sparse, chol, chol_sparse}.                 *)
(*                                                                         *)
(* Floating point numbers are modelled as fixed point numbers: the integer *)
(* x stands for the real x / Scale, every operation rounds towards minus   *)
(* infinity, a result larger than MaxFinite overflows to an infinity, and  *)
(* the IEEE special values +inf, -inf and NaN are kept with their IEEE     *)
(* rules (x/0, 0/0, inf-inf, inf*0, comparisons with NaN false).           *)
(* Vectors are sequences, matrices are sequences of rows.                  *)
(***************************************************************************)
EXTENDS Integers, Sequences, FiniteSets, TLC

---------------------------------------------------------------------------
(* Bounds of the number model and of the runs explored.                    *)

\* one unit of the fixed point representation: x stands for x / Scale
Scale == 100

\* largest finite magnitude (scaled); beyond it a result is an infinity
MaxFinite == 10000000

\* the iteration counter is exact up to MaxNiter and saturates there
MaxNiter == 8

\* the rounds through which a backend is followed when it is run as a function
MaxRounds == 64

\* largest number of time samples of a run
MaxNt == 2

\* largest index N of a key invN looked for in a collection
MaxIndex == 12

---------------------------------------------------------------------------
(* State.                                                                  *)

VARIABLES
    pc,          \* "start", "loop", "iterate", "done" or "raised"
    err,         \* the exception that ended the run, "" when none
    inp,         \* what _compute_check returns: operator, method, chain,
                 \* conv_crit, kwdargs, matrix, opmat, data, sigma, verb,
                 \* store, crop (with the shape and the mask of the grid),
                 \* the keys; maxiter, the parameter of compute_inversions
                 \* and of the backends; and nan_raises, whether the LAPACK
                 \* of the build reports a matrix that holds NaN as singular
    R, Tn, TTn, Tyn, data_n,           \* the intermediates
    sol0, mu0,   \* the initial guess array and the current mu0 of the loop
    ii,          \* the time index, 0-based as in the source
    sol, mu, chi2n, regularity, niter, spec,    \* the output arrays
    bk,          \* the locals of the backend invocation in progress
    sol0_in, mu0_in,   \* the sol0 and mu0 each backend invocation received
    prev,        \* the inputs and results of the previous call, if any
    step,        \* the parity of the number of steps taken so far
    hist,        \* what each backend invocation that returned went through
    sol_full,    \* the solution on the full grid, << >> while it is unbound
    ret,         \* what compute_inversions returned, if it has
    coll         \* the data collection: dobj['inversions'] and ddata

vars == <<pc, err, inp, R, Tn, TTn, Tyn, data_n, sol0, mu0, ii,
          sol, mu, chi2n, regularity, niter, spec, bk, sol0_in, mu0_in, prev,
          step, hist, sol_full, ret, coll>>

---------------------------------------------------------------------------
(* IEEE special values, as integers outside the finite range.              *)

PInf == 2^30
NInf == 0 - 2^30
NaN  == 2^30 + 1

IsNaN(x) == x = NaN
IsFinite(x) == x # NaN /\ x # PInf /\ x # NInf
Finite == (0 - MaxFinite)..MaxFinite
Float == Finite \cup {PInf, NInf, NaN}

\* sign of a non-NaN value
Sign(x) == IF x > 0 THEN 1 ELSE IF x < 0 THEN 0 - 1 ELSE 0

\* overflow of a finite result
Sat(x) == IF x > MaxFinite THEN PInf ELSE IF x < 0 - MaxFinite THEN NInf ELSE x

Abs(x) == IF x < 0 THEN 0 - x ELSE x

\* the float of an integer n
FromInt(n) == Sat(n * Scale)

FNeg(x) ==
    IF x = NaN THEN NaN
    ELSE IF x = PInf THEN NInf
    ELSE IF x = NInf THEN PInf
    ELSE 0 - x

FAdd(x, y) ==
    IF x = NaN \/ y = NaN THEN NaN
    ELSE IF ~IsFinite(x) /\ ~IsFinite(y) THEN (IF x = y THEN x ELSE NaN)
    ELSE IF ~IsFinite(x) THEN x
    ELSE IF ~IsFinite(y) THEN y
    ELSE Sat(x + y)

FSub(x, y) == FAdd(x, FNeg(y))

\* product of two finite values: x * (q*Scale + r) / Scale = x*q + x*r/Scale
FinMul(x, y) ==
    LET q == y \div Scale
        r == y % Scale
    IN  IF q # 0 /\ Abs(x) > (2 * MaxFinite) \div Abs(q)
        THEN (IF Sign(x) * Sign(q) > 0 THEN PInf ELSE NInf)
        ELSE Sat(x * q + ((x * r) \div Scale))

FMul(x, y) ==
    IF x = NaN \/ y = NaN THEN NaN
    ELSE IF ~IsFinite(x) \/ ~IsFinite(y)
         THEN (IF x = 0 \/ y = 0 THEN NaN
               ELSE IF Sign(x) * Sign(y) > 0 THEN PInf ELSE NInf)
    ELSE FinMul(x, y)

FDiv(x, y) ==
    IF x = NaN \/ y = NaN THEN NaN
    ELSE IF ~IsFinite(x) /\ ~IsFinite(y) THEN NaN
    ELSE IF ~IsFinite(x) THEN (IF y >= 0 THEN x ELSE FNeg(x))
    ELSE IF ~IsFinite(y) THEN 0
    ELSE IF y = 0 THEN (IF x = 0 THEN NaN ELSE IF x > 0 THEN PInf ELSE NInf)
    ELSE IF y > 0 THEN Sat((x * Scale) \div y)
    ELSE Sat(((0 - x) * Scale) \div (0 - y))

FAbs(x) ==
    IF x = NaN THEN NaN
    ELSE IF ~IsFinite(x) THEN PInf
    ELSE Abs(x)

\* x > y and x < y as IEEE comparisons: false as soon as one side is NaN
FGt(x, y) == x # NaN /\ y # NaN /\ x > y
FLt(x, y) == x # NaN /\ y # NaN /\ x < y
FLe(x, y) == x # NaN /\ y # NaN /\ x <= y

\* largest r' >= r with r'*r' <= n, trying the bits b, b/2, ..., 1
RECURSIVE ISqrtBits(_, _, _)
ISqrtBits(n, r, b) ==
    IF b = 0 THEN r
    ELSE IF (r + b) * (r + b) <= n THEN ISqrtBits(n, r + b, b \div 2)
    ELSE ISqrtBits(n, r, b \div 2)

FSqrt(x) ==
    IF x = NaN \/ x = NInf THEN NaN
    ELSE IF x = PInf THEN PInf
    ELSE IF x < 0 THEN NaN
    ELSE ISqrtBits(x * Scale, 0, 2^14)

\* x ** n for an integer exponent n >= 0 (x ** 0 is 1 for every x)
RECURSIVE FPow(_, _)
FPow(x, n) == IF n = 0 THEN FromInt(1) ELSE FMul(FPow(x, n - 1), x)

---------------------------------------------------------------------------
(* Vectors and matrices of floats.                                         *)

RECURSIVE FSum(_)
FSum(v) == IF v = << >> THEN 0 ELSE FAdd(FSum(SubSeq(v, 1, Len(v) - 1)), v[Len(v)])

Dot(u, v) == FSum([k \in 1..Len(u) |-> FMul(u[k], v[k])])

NRows(A) == Len(A)
NCols(A) == Len(A[1])

Transpose(A) == [k \in 1..NCols(A) |-> [c \in 1..NRows(A) |-> A[c][k]]]

MatVec(A, v) == [c \in 1..NRows(A) |-> Dot(A[c], v)]

MatMul(A, B) ==
    [i \in 1..NRows(A) |-> [j \in 1..NCols(B) |->
        FSum([k \in 1..NCols(A) |-> FMul(A[i][k], B[k][j])])]]

MatAdd(A, B) == [i \in 1..NRows(A) |-> [j \in 1..NCols(A) |-> FAdd(A[i][j], B[i][j])]]

\* mu * A for a scalar mu; python's product of a float and an array
MatScale(m, A) == [i \in 1..NRows(A) |-> [j \in 1..NCols(A) |-> FMul(m, A[i][j])]]

VecSub(u, v) == [k \in 1..Len(u) |-> FSub(u[k], v[k])]

Full(n, x) == [k \in 1..n |-> x]

\* numpy's max: NaN as soon as one entry is NaN
RECURSIVE VecMax(_)
VecMax(v) ==
    IF Len(v) = 1 THEN v[1]
    ELSE LET m == VecMax(SubSeq(v, 1, Len(v) - 1))
             x == v[Len(v)]
         IN  IF m = NaN \/ x = NaN THEN NaN ELSE IF x > m THEN x ELSE m

\* numpy's nanmean over a list of values: the mean of those that are not NaN
NanMean(v) ==
    LET kept == SelectSeq(v, LAMBDA x: x # NaN)
    IN  FDiv(FSum(kept), FromInt(Len(kept)))

---------------------------------------------------------------------------
(* The linear solve of (TTn + mu0*R) sol = Tyn.  Dense arrays hold every   *)
(* entry, so a product with an infinite mu0 turns the zeros of R into NaN; *)
(* sparse arrays hold the non-zero entries only.  Apart from such NaN the  *)
(* systems of the runs explored are diagonal (SystemsDiagonal below): the  *)
(* pivots of a factorisation are the diagonal entries and the solution is  *)
(* Tyn[k] / A[k][k].                                                       *)

\* m * A for a sparse A: only the stored (non-zero) entries are multiplied
SpScale(m, A) ==
    [i \in 1..NRows(A) |->
        [j \in 1..NCols(A) |-> IF A[i][j] = 0 THEN 0 ELSE FMul(m, A[i][j])]]

\* A.dot(v) for a sparse A: only the stored entries enter the sums
SpMatVec(A, v) ==
    [i \in 1..NRows(A) |->
        FSum([j \in 1..NCols(A) |-> IF A[i][j] = 0 THEN 0 ELSE FMul(A[i][j], v[j])])]

\* TTn + mu0*R, the matrix each backend hands to its solver
SystemMatrix(sp, TTn_, mu0_, R_) ==
    MatAdd(TTn_, IF sp THEN SpScale(mu0_, R_) ELSE MatScale(mu0_, R_))

HasNaN(A) == \E i \in 1..NRows(A) : \E j \in 1..NCols(A) : A[i][j] = NaN

\* a Cholesky factorisation (LAPACK potrf, CHOLMOD) succeeds: every pivot is
\* > 0, which a NaN anywhere in the matrix prevents
PosDef(A) == ~HasNaN(A) /\ \A k \in 1..NRows(A) : FGt(A[k][k], 0)

\* a pivot that is exactly zero
ExactlySingular(A) == \E k \in 1..NRows(A) : A[k][k] = 0

AllFinite(v) == \A k \in 1..Len(v) : IsFinite(v[k])

DiagSolve(A, b) == [k \in 1..Len(b) |-> FDiv(b[k], A[k][k])]

Returned(x) == [raised |-> FALSE, sol |-> x]
Raised == [raised |-> TRUE, sol |-> << >>]

\* scipy.linalg.solve(assume_a='pos'): LinAlgError unless positive definite
SolvePos(A, b) ==
    IF PosDef(A) THEN {Returned(DiagSolve(A, b))} ELSE {Raised}

\* scipy.linalg.solve(assume_a='sym'): LinAlgError on a zero pivot.  On a
\* matrix that holds NaN the pivot search of LAPACK compares NaN: it reports
\* a singular matrix or goes on and returns NaN, depending on the build
SolveSym(A, b) ==
    IF HasNaN(A) THEN {Raised, Returned(Full(Len(b), NaN))}
    ELSE IF ExactlySingular(A) THEN {Raised}
    ELSE {Returned(DiagSolve(A, b))}

\* scipy.sparse.linalg.spsolve: an exactly singular matrix only warns and the
\* solution is filled with NaN
SpSolve(A, b) ==
    IF ExactlySingular(A) THEN {Returned(Full(Len(b), NaN))}
    ELSE {Returned(DiagSolve(A, b))}

\* cholesky + cho_solve(check_finite=True) succeed: positive definite, and
\* neither the factor nor Tyn holds an infinity or a NaN
CholOk(A, b) ==
    /\ PosDef(A)
    /\ \A k \in 1..NRows(A) : IsFinite(A[k][k])
    /\ AllFinite(b)

\* a Cholesky solve that applies one of the two triangular solves only
SolveCholHalf(A, b) ==
    IF CholOk(A, b)
    THEN {Returned([k \in 1..Len(b) |-> FDiv(b[k], FSqrt(A[k][k]))])}
    ELSE SolveSym(A, b)

\* the try / except of inv_linear_augTikho_chol
SolveChol(A, b) ==
    IF CholOk(A, b) THEN {Returned(DiagSolve(A, b))} ELSE SolveSym(A, b)

\* the try / except of inv_linear_augTikho_chol_sparse
SolveCholSparse(A, b) ==
    IF PosDef(A) THEN {Returned(DiagSolve(A, b))} ELSE SpSolve(A, b)

Methods == {"inv_linear_augTikho_v1", "inv_linear_augTikho_v1_sparse",
            "inv_linear_augTikho_chol", "inv_linear_augTikho_chol_sparse"}

SparseMethods == {"inv_linear_augTikho_v1_sparse", "inv_linear_augTikho_chol_sparse"}

\* the possible outcomes of the solve step of the backend named method
BackendSolve(method, A, b) ==
    CASE method = "inv_linear_augTikho_v1" -> SolvePos(A, b)
      [] method = "inv_linear_augTikho_v1_sparse" -> SpSolve(A, b)
      [] method = "inv_linear_augTikho_chol" -> SolveChol(A, b)
      [] method = "inv_linear_augTikho_chol_sparse" -> SolveCholSparse(A, b)

---------------------------------------------------------------------------
(* One backend: INIT and one round of ITERATE.  kw is the keyword bag      *)
(* (a0, b0, a1, b1, d, conv_reg, nbs_fixed) the time loop passes on.       *)

\* the constant 1200. of "a0 - 1. + 1200./2."
NbsFixed == 1200

\* the 0.001 of the floor of sol**2, as the divisor 1000
ClipDiv == 1000

\* an a0bis that ignores nbs_fixed
A0bisNbs(kw, nbs) ==
    FAdd(FSub(FromInt(kw.a0), FromInt(1)), FDiv(FromInt(nbs), FromInt(2)))

A0bis(kw, nbs) ==
    IF ~kw.nbs_fixed
    THEN FAdd(FSub(FromInt(kw.a0), FromInt(1)), FDiv(FromInt(nbs), FromInt(2)))
    ELSE FAdd(FSub(FromInt(kw.a0), FromInt(1)), FDiv(FromInt(NbsFixed), FromInt(2)))

A1bis(kw, nchan) ==
    FAdd(FSub(FromInt(kw.a1), FromInt(1)), FDiv(FromInt(nchan), FromInt(2)))

\* res2 = np.sum((Tn.dot(sol) - yn)**2)
Res2(sp, Tn_, sol_, yn) ==
    LET e == VecSub(IF sp THEN SpMatVec(Tn_, sol_) ELSE MatVec(Tn_, sol_), yn)
    IN  FSum([c \in 1..Len(e) |-> FMul(e[c], e[c])])

\* reg = sol.dot(R.dot(sol))
Reg(sp, R_, sol_) == Dot(sol_, IF sp THEN SpMatVec(R_, sol_) ELSE MatVec(R_, sol_))

\* an update of lamb with b0 subtracted
LambMinus(a0bis, reg, kw) == FDiv(a0bis, FSub(FMul(Scale \div 2, reg), FromInt(kw.b0)))

Lamb(a0bis, reg, kw) == FDiv(a0bis, FAdd(FMul(Scale \div 2, reg), FromInt(kw.b0)))

Tau(a1bis, res2, kw) == FDiv(a1bis, FAdd(FMul(Scale \div 2, res2), FromInt(kw.b1)))

\* mu1 = (lamb/tau) * (2*a1bis/res2)**d
Mu1(lamb, tau, a1bis, res2, kw) ==
    FMul(FDiv(lamb, tau), FPow(FDiv(FMul(FromInt(2), a1bis), res2), kw.d))

\* conv = np.abs(mu1 - mu0) / mu1
ConvReg(mu1, mu0_) == FDiv(FAbs(FSub(mu1, mu0_)), mu1)

\* sol2 = sol**2 with the entries below 0.001*max(sol2) raised to it
Sol2(sol_) ==
    LET sq == [k \in 1..Len(sol_) |-> FMul(sol_[k], sol_[k])]
        floor == FDiv(VecMax(sq), FromInt(ClipDiv))
    IN  [k \in 1..Len(sol_) |-> IF FLt(sq[k], floor) THEN floor ELSE sq[k]]

\* conv = np.sqrt(np.sum((sol - sol0)**2 / sol2) / nbs)
ConvSol(sol_, sol0_, nbs) ==
    LET e == VecSub(sol_, sol0_)
        s2 == Sol2(sol_)
    IN  FSqrt(FDiv(FSum([k \in 1..Len(e) |-> FDiv(FMul(e[k], e[k]), s2[k])]),
                   FromInt(nbs)))

\* a loop that is content with one round
LoopCondOnce(b, conv_crit) == b.niter < 1 \/ FGt(b.conv, conv_crit)

\* a loop that is content with one round when the time loop chains
LoopCondUnlessChained(b, conv_crit) ==
    b.niter < (IF inp.chain THEN 1 ELSE 2) \/ FGt(b.conv, conv_crit)

\* a loop that stops after maxiter rounds
LoopCondMaxiter(b, conv_crit) ==
    (b.niter < 2 \/ FGt(b.conv, conv_crit)) /\ b.niter < inp.maxiter

\* the loop condition "niter < 2 or conv > conv_crit"
LoopCond(b, conv_crit) == b.niter < 2 \/ FGt(b.conv, conv_crit)

\* the counter, exact up to MaxNiter
Incr(n) == IF n < MaxNiter THEN n + 1 ELSE n

\* the rounds a backend invocation went through, the first MaxNiter of them
Traced(trace, round) == IF Len(trace) < MaxNiter THEN Append(trace, round) ELSE trace

\* a verb block that leaves the total it prints in mu0
BackendInitTotal(sp, verb, mu0_, sol0_, Tn_, R_, yn, kw, nchan, nbs) ==
    LET chi2n_ == FDiv(Res2(sp, Tn_, sol0_, yn), FromInt(nchan))
        reg == Reg(sp, R_, sol0_)
    IN  [mu0 |-> IF verb >= 2
                 THEN FAdd(FMul(FromInt(nchan), chi2n_), FMul(mu0_, reg))
                 ELSE mu0_,
         mu1 |-> 0, conv |-> 0, niter |-> 0,
         a0bis |-> A0bis(kw, nbs), a1bis |-> A1bis(kw, nchan),
         sol |-> << >>,
         chi2n |-> IF verb >= 2 THEN chi2n_ ELSE NaN,
         reg |-> IF verb >= 2 THEN reg ELSE NaN,
         res2 |-> NaN, tau |-> NaN, lamb |-> NaN,
         factor |-> 0, steps |-> << >>,
         res2_pos |-> TRUE, trace |-> << >>]

\* the backend's locals after INIT and the verb block before the loop, which
\* binds chi2n and reg when verb >= 2; a local that is not bound yet is NaN
\* here.  factor is the local of the sparse Cholesky backend: 0 for None,
\* else the factorisation object, named by the number of the invocation that
\* built it.  res2_pos (res2 > 0 in every round so far), trace and steps (what
\* each round did with factor) only record
BackendInit(sp, verb, mu0_, sol0_, Tn_, R_, yn, kw, nchan, nbs) ==
    [mu0 |-> mu0_, mu1 |-> 0, conv |-> 0, niter |-> 0,
     a0bis |-> A0bis(kw, nbs), a1bis |-> A1bis(kw, nchan),
     sol |-> << >>,
     chi2n |-> IF verb >= 2
               THEN FDiv(Res2(sp, Tn_, sol0_, yn), FromInt(nchan)) ELSE NaN,
     reg |-> IF verb >= 2 THEN Reg(sp, R_, sol0_) ELSE NaN,
     res2 |-> NaN, tau |-> NaN, lamb |-> NaN,
     factor |-> 0, steps |-> << >>,
     res2_pos |-> TRUE, trace |-> << >>]

\* a try block that builds a new factorisation object in every round
FactorStepRebuild(method, n, b, A) ==
    IF method # "inv_linear_augTikho_chol_sparse" THEN b
    ELSE IF PosDef(A)
         THEN [b EXCEPT !.factor = n + Len(b.steps),
                        !.steps = Traced(@, [op |-> "build", obj |-> n + Len(b.steps)])]
         ELSE [b EXCEPT !.steps = Traced(@, [op |-> "build failed", obj |-> 0])]

\* the try block of the sparse Cholesky backend in invocation number n, on
\* the system matrix A: with factor None, cholmod.cholesky builds an object,
\* which is bound to factor only if the factorisation succeeds; else
\* factor.cholesky_inplace updates the object, which stays bound to factor
\* when the update fails.  The other backends have no factor
FactorStep(method, n, b, A) ==
    IF method # "inv_linear_augTikho_chol_sparse" THEN b
    ELSE IF b.factor = 0
         THEN IF PosDef(A)
              THEN [b EXCEPT !.factor = n,
                             !.steps = Traced(@, [op |-> "build", obj |-> n])]
              ELSE [b EXCEPT !.steps = Traced(@, [op |-> "build failed", obj |-> 0])]
         ELSE IF PosDef(A)
              THEN [b EXCEPT !.steps = Traced(@, [op |-> "update", obj |-> b.factor])]
              ELSE [b EXCEPT !.steps = Traced(@, [op |-> "update failed",
                                                   obj |-> b.factor])]

\* a round that computes reg from the array sol0, as the lines before the
\* loop do
BackendRoundRegOfSol0(sp, b, sol_, sol0_, Tn_, R_, yn, kw, nchan, nbs) ==
    LET res2 == Res2(sp, Tn_, sol_, yn)
        chi2n_ == FDiv(res2, FromInt(nchan))
        reg == Reg(sp, R_, sol0_)
        lamb == Lamb(b.a0bis, reg, kw)
        tau == Tau(b.a1bis, res2, kw)
        mu1 == Mu1(lamb, tau, b.a1bis, res2, kw)
        conv == IF kw.conv_reg THEN ConvReg(mu1, b.mu0) ELSE ConvSol(sol_, sol0_, nbs)
    IN  [mu0 |-> mu1, mu1 |-> mu1, conv |-> conv, niter |-> Incr(b.niter),
         a0bis |-> b.a0bis, a1bis |-> b.a1bis,
         sol |-> sol_, chi2n |-> chi2n_, reg |-> reg,
         res2 |-> res2, tau |-> tau, lamb |-> lamb,
         factor |-> b.factor, steps |-> b.steps,
         res2_pos |-> b.res2_pos /\ FGt(res2, 0),
         trace |-> Traced(b.trace, [sol |-> sol_, mu1 |-> mu1, conv |-> conv,
                                    niter |-> Incr(b.niter)])]

\* the backend's locals after one round of the loop started from the locals b
\* with the solution sol_ of this round's solve
BackendRound(sp, b, sol_, sol0_, Tn_, R_, yn, kw, nchan, nbs) ==
    LET res2 == Res2(sp, Tn_, sol_, yn)
        chi2n_ == FDiv(res2, FromInt(nchan))
        reg == Reg(sp, R_, sol_)
        lamb == Lamb(b.a0bis, reg, kw)
        tau == Tau(b.a1bis, res2, kw)
        mu1 == Mu1(lamb, tau, b.a1bis, res2, kw)
        conv == IF kw.conv_reg THEN ConvReg(mu1, b.mu0) ELSE ConvSol(sol_, sol0_, nbs)
    IN  [mu0 |-> mu1, mu1 |-> mu1, conv |-> conv, niter |-> Incr(b.niter),
         a0bis |-> b.a0bis, a1bis |-> b.a1bis,
         sol |-> sol_, chi2n |-> chi2n_, reg |-> reg,
         res2 |-> res2, tau |-> tau, lamb |-> lamb,
         factor |-> b.factor, steps |-> b.steps,
         res2_pos |-> b.res2_pos /\ FGt(res2, 0),
         trace |-> Traced(b.trace, [sol |-> sol_, mu1 |-> mu1, conv |-> conv,
                                    niter |-> Incr(b.niter)])]

---------------------------------------------------------------------------
(* compute_inversions: what it builds before the time loop.                *)

KnownOperators == {"D0N2", "D1N2", "D2N2"}

\* an operator selection that forgets the second component for D1N2
RegOperatorFirst(operator, opmat) ==
    CASE operator = "D0N2" -> opmat[1]
      [] operator = "D1N2" -> opmat[1]
      [] operator = "D2N2" -> MatAdd(opmat[1], opmat[2])

\* the regularisation operator R of a known operator name
RegOperator(operator, opmat) ==
    CASE operator = "D0N2" -> opmat[1]
      [] operator = "D1N2" -> MatAdd(opmat[1], opmat[2])
      [] operator = "D2N2" -> MatAdd(opmat[1], opmat[2])

\* the row of sigma that applies to time index t (1-based): sigma is (1, nchan)
\* or (nt, nchan) and broadcasts over time
SigmaRow(sigma, t) == IF Len(sigma) > 1 THEN sigma[t] ELSE sigma[1]

\* data_n = data / sigma
DataN(data, sigma) ==
    [t \in 1..Len(data) |->
        [c \in 1..Len(data[t]) |-> FDiv(data[t][c], SigmaRow(sigma, t)[c])]]

\* np.nanmean(sigma, axis=0)
SigmaMean(sigma) ==
    [c \in 1..Len(sigma[1]) |-> NanMean([t \in 1..Len(sigma) |-> sigma[t][c]])]

\* matrix / s[:, None]
Normalise(matrix, s) ==
    [c \in 1..NRows(matrix) |-> [k \in 1..NCols(matrix) |-> FDiv(matrix[c][k], s[c])]]

\* Tn.T.dot(Tn)
Gram(Tn_) == MatMul(Transpose(Tn_), Tn_)

\* matrix.mean()
MatMean(matrix) ==
    FDiv(FSum([c \in 1..NRows(matrix) |-> FSum(matrix[c])]),
         FromInt(NRows(matrix) * NCols(matrix)))

\* sol0 = np.full((nbs,), np.nanmean(data[0, :]) / matrix.mean())
InitialGuess(data, matrix) ==
    Full(NCols(matrix), FDiv(NanMean(data[1]), MatMean(matrix)))

\* mu0 = 1.
InitialMu == FromInt(1)

---------------------------------------------------------------------------
(* The state at the entry of compute_inversions.                           *)

nt == Len(inp.data)
nchan == NRows(inp.matrix)
nbs == NCols(inp.matrix)

\* sparse arrays are handed to the sparse backends
sparse == inp.method \in SparseMethods

NoBackend == [niter |-> 0 - 1]

\* what the output arrays hold at a time index that was not written:
\* NaN, 0 and None (<< >> here)
InitialOutputs == <<Full(nbs, NaN), NaN, NaN, NaN, 0, << >>>>

\* compute_inversions has not returned; it returned None; it returned v
NotReturned == [kind |-> "pending"]
ReturnedNone == [kind |-> "None"]
ReturnedTuple(v) == [kind |-> "tuple", value |-> v]
NoCall == [called |-> FALSE]

\* the state at the entry of compute_inversions with the inputs i
Entry(i) ==
    /\ pc = "start"
    /\ err = ""
    /\ inp = i
    /\ R = << >> /\ Tn = << >> /\ TTn = << >> /\ Tyn = << >> /\ data_n = << >>
    /\ sol0 = << >> /\ mu0 = NaN
    /\ ii = 0
    /\ sol = << >> /\ mu = << >> /\ chi2n = << >> /\ regularity = << >>
    /\ niter = << >> /\ spec = << >>
    /\ bk = NoBackend
    /\ sol0_in = << >> /\ mu0_in = << >>
    /\ hist = << >> /\ sol_full = << >> /\ ret = NotReturned

---------------------------------------------------------------------------
(* compute_inversions after the time loop: the solution on the full grid.  *)
(* A grid of shape (s0, s1) is a sequence of s0 rows of s1 entries; the     *)
(* index arrays hold 0-based indices as in the source.                     *)

Max(S) == CHOOSE x \in S : \A y \in S : y <= x

\* np.arange(0, n)
Arange(n) == [k \in 1..n |-> k - 1]

\* np.tile(v, n): v, n times over
Tile(v, n) == [f \in 1..(Len(v) * n) |-> v[((f - 1) % Len(v)) + 1]]

\* np.repeat(v, n): each entry of v, n times
Repeat(v, n) == [f \in 1..(Len(v) * n) |-> v[((f - 1) \div n) + 1]]

\* a flattening that goes row after row (order='C')
RavelC(A) ==
    [f \in 1..(Len(A) * Len(A[1])) |->
        A[((f - 1) \div Len(A[1])) + 1][((f - 1) % Len(A[1])) + 1]]

\* A.ravel(order='F'): the entries column after column
RavelF(A) ==
    [f \in 1..(Len(A) * Len(A[1])) |->
        A[((f - 1) % Len(A)) + 1][((f - 1) \div Len(A)) + 1]]

\* v[m] for a boolean array m: the entries of v where m holds, in order
RECURSIVE Compress(_, _)
Compress(v, m) ==
    IF v = << >> THEN << >>
    ELSE LET rest == Compress(SubSeq(v, 1, Len(v) - 1), SubSeq(m, 1, Len(m) - 1))
         IN  IF m[Len(m)] THEN Append(rest, v[Len(v)]) ELSE rest

\* iR = np.tile(np.arange(0, shapebs[0]), shapebs[1])[cropbsflat]
IndR(shapebs, cropbs) == Compress(Tile(Arange(shapebs[1]), shapebs[2]), RavelF(cropbs))

\* iZ = np.repeat(np.arange(0, shapebs[1]), shapebs[0])[cropbsflat]
IndZ(shapebs, cropbs) == Compress(Repeat(Arange(shapebs[2]), shapebs[1]), RavelF(cropbs))

\* sol_full = np.zeros((nt, s0, s1)); sol_full[:, iR, iZ] = sol.  Where a cell
\* is named more than once the last assignment stays
Scatter(sol_, iR, iZ, shapebs) ==
    [t \in 1..Len(sol_) |->
        [r \in 1..shapebs[1] |->
            [c \in 1..shapebs[2] |->
                LET ks == {k \in 1..Len(iR) : iR[k] = r - 1 /\ iZ[k] = c - 1}
                IN  IF ks = {} THEN 0 ELSE sol_[t][Max(ks)]]]]

---------------------------------------------------------------------------
(* The entries of the collection.  A key is the sequence of its characters.*)

DigitChars == <<"0", "1", "2", "3", "4", "5", "6", "7", "8", "9">>

\* f'{n}' for an integer n >= 0
RECURSIVE StrOf(_)
StrOf(n) ==
    IF n < 10 THEN <<DigitChars[n + 1]>>
    ELSE Append(StrOf(n \div 10), DigitChars[(n % 10) + 1])

\* int(s) for a string of digits
RECURSIVE IntOf(_)
IntOf(s) ==
    IF Len(s) = 1 THEN (CHOOSE d \in 0..9 : DigitChars[d + 1] = s[1])
    ELSE 10 * IntOf(SubSeq(s, 1, Len(s) - 1))
         + (CHOOSE d \in 0..9 : DigitChars[d + 1] = s[Len(s)])

\* an index taken from the number of inversions
NinvCount(c) ==
    IF ~c.has_inversions THEN 0 ELSE Cardinality(DOMAIN c.inversions)

\* ninv: 0 without dobj['inversions'], else the largest int(kk[3:]) plus one
Ninv(c) ==
    IF ~c.has_inversions THEN 0
    ELSE Max({IntOf(SubSeq(kk, 4, Len(kk))) : kk \in DOMAIN c.inversions}) + 1

\* keyinv = f'inv{ninv}'
Keyinv(ninv) == <<"i", "n", "v">> \o StrOf(ninv)

\* f'{keyinv}-chi2n' and the like
Chi2nKey(key) == key \o <<"-", "c", "h", "i", "2", "n">>
MuKey(key) == key \o <<"-", "m", "u">>
RegKey(key) == key \o <<"-", "r", "e", "g">>
NiterKey(key) == key \o <<"-", "n", "i", "t", "e", "r">>
SigmaKey(key) == key \o <<"-", "s", "i", "g", "m", "a">>

\* no key_sigma was given
NoKey == << >>

\* refinv: the time reference of the data, then the references of the bsplines
RefTime == <<"nt">>
RefInv == <<"nt", "nR", "nZ">>
RefData == <<"nt", "nchan">>

\* a dict with the one item key: value
Item(key, value) == [k \in {key} |-> value]

\* the ddata handed to coll.update
Ddata(i, keyinv, sol_full_, chi2n_, mu_, regularity_, niter_) ==
    Item(keyinv, [data |-> sol_full_, ref |-> RefInv])
    @@ Item(Chi2nKey(keyinv), [data |-> chi2n_, ref |-> RefTime])
    @@ Item(MuKey(keyinv), [data |-> mu_, ref |-> RefTime])
    @@ Item(RegKey(keyinv), [data |-> regularity_, ref |-> RefTime])
    @@ Item(NiterKey(keyinv), [data |-> niter_, ref |-> RefTime])
    @@ (IF i.key_sigma = NoKey
        THEN Item(SigmaKey(i.key_data),
                  IF Len(i.sigma) = Len(i.data)
                  THEN [data |-> i.sigma, ref |-> RefData]
                  ELSE [data |-> i.sigma[1], ref |-> Tail(RefData)])
        ELSE << >>)

\* the dobj handed to coll.update
Dobj(i, keyinv) ==
    Item(keyinv, [data_in |-> i.key_data, sol |-> keyinv, operator |-> i.operator,
                  method |-> i.method, chain |-> i.chain, conv_crit |-> i.conv_crit])

\* coll.update(dobj=dobj, ddata=ddata): the items are added to those the
\* collection holds, an item under a key it holds already taking its place
CollUpdate(c, dobj, ddata) ==
    [has_inversions |-> TRUE,
     inversions |-> dobj @@ c.inversions,
     ddata |-> ddata @@ c.ddata]

---------------------------------------------------------------------------
(* Actions.                                                                *)

\* compute_inversions up to the call of the time loop: R, data_n, mu0, Tn,
\* TTn, Tyn, sol0 and the output arrays
Prepare ==
    /\ step' = ~step
    /\ pc = "start"
    /\ inp.operator \in KnownOperators
    /\ data_n' = DataN(inp.data, inp.sigma)
    /\ mu0' = InitialMu
    /\ R' = RegOperator(inp.operator, inp.opmat)
    /\ Tyn' = Full(nbs, NaN)
    /\ Tn' = Normalise(inp.matrix, SigmaMean(inp.sigma))
    /\ TTn' = Gram(Tn')
    /\ sol0' = InitialGuess(inp.data, inp.matrix)
    /\ sol' = Full(nt, Full(nbs, NaN))
    /\ mu' = Full(nt, NaN)
    /\ chi2n' = Full(nt, NaN)
    /\ regularity' = Full(nt, NaN)
    /\ niter' = Full(nt, 0)
    /\ spec' = Full(nt, << >>)
    /\ ii' = 0
    /\ pc' = "loop"
    /\ UNCHANGED <<err, inp, bk, sol0_in, mu0_in, prev,
                   hist, sol_full, ret, coll>>

\* an operator selection that takes D0N2 for a name it does not know
FallBackToD0N2 ==
    /\ step' = ~step
    /\ pc = "start"
    /\ inp.operator \notin KnownOperators
    /\ inp' = [inp EXCEPT !.operator = "D0N2"]
    /\ UNCHANGED <<pc, err, R, Tn, TTn, Tyn, data_n, sol0, mu0, ii,
                   sol, mu, chi2n, regularity, niter, spec, bk, sol0_in, mu0_in, prev,
                   hist, sol_full, ret, coll>>

\* the else branch of the operator selection
RaiseUnknownOperator ==
    /\ step' = ~step
    /\ pc = "start"
    /\ inp.operator \notin KnownOperators
    /\ pc' = "raised"
    /\ err' = "unknown operator!"
    /\ UNCHANGED <<inp, R, Tn, TTn, Tyn, data_n, sol0, mu0, ii,
                   sol, mu, chi2n, regularity, niter, spec, bk, sol0_in, mu0_in, prev,
                   hist, sol_full, ret, coll>>

\* a time loop that keeps the Tn built before the loop for the first sample
LoopTnAfterFirst(i) ==
    IF Len(inp.sigma) > 1 /\ i > 0 THEN Normalise(inp.matrix, inp.sigma[i + 1]) ELSE Tn

\* the Tn the time loop uses at time index ii (0-based)
LoopTn(i) ==
    IF Len(inp.sigma) > 1 THEN Normalise(inp.matrix, inp.sigma[i + 1]) ELSE Tn

\* a TTn that the solve of the sample before overwrote with its system matrix
LoopTTnOverwritten(i) ==
    IF Len(inp.sigma) > 1 THEN Gram(LoopTn(i))
    ELSE IF i > 0 THEN SystemMatrix(sparse, TTn, mu0, R) ELSE TTn

\* the TTn the time loop uses at time index ii (0-based)
LoopTTn(i) ==
    IF Len(inp.sigma) > 1 THEN Gram(LoopTn(i)) ELSE TTn

\* a Tyn computed before Tn is recomputed, from the Tn of the sample before
LoopTynStale(Tn_, i) == MatVec(Transpose(Tn), data_n[i + 1])

\* a Tyn taken from the data of the following time index
LoopTynNext(Tn_, i) ==
    MatVec(Transpose(Tn_), data_n[IF i + 1 < Len(data_n) THEN i + 2 ELSE 1])

\* Tyn[:] = Tn.T.dot(data_n[ii, :])
LoopTyn(Tn_, i) == MatVec(Transpose(Tn_), data_n[i + 1])

\* one pass of the for loop up to the backend's while loop: the intermediates
\* of sample ii, the call of the backend and the backend's INIT
BeginSample ==
    /\ step' = ~step
    /\ pc = "loop"
    /\ ii < nt
    /\ Tn' = LoopTn(ii)
    /\ TTn' = LoopTTn(ii)
    /\ Tyn' = LoopTyn(Tn', ii)
    /\ bk' = BackendInit(sparse, inp.verb, mu0, sol0, Tn', R, data_n[ii + 1],
                          inp.kwdargs, nchan, nbs)
    /\ sol0_in' = Append(sol0_in, sol0)
    /\ mu0_in' = Append(mu0_in, mu0)
    /\ pc' = "iterate"
    /\ UNCHANGED <<err, inp, R, data_n, sol0, mu0, ii,
                   sol, mu, chi2n, regularity, niter, spec, prev,
                   hist, sol_full, ret, coll>>

\* the possible outcomes of the solve of the round about to run; where they
\* depend on the build, the outcome of the build of this call
RoundSolveAt(b) ==
    LET outs == BackendSolve(inp.method, SystemMatrix(sparse, TTn, b.mu0, R), Tyn)
    IN  IF Cardinality(outs) > 1
        THEN {o \in outs : o.raised = inp.nan_raises}
        ELSE outs

RoundSolve == RoundSolveAt(bk)

\* a round that binds a local name and leaves the caller's array alone
UpdateSol0Local(sol0_, sol_) == sol0_

\* the array sol0 after a round that found sol_: sol0[:] = sol[:]
UpdateSol0(sol0_, sol_) == sol_

\* what the backend of sample number i does from its locals b with the array
\* sol0_, on the Tn, TTn, Tyn and R of the state: its while loop, up to fuel
\* rounds, to the return of (sol, mu1, chi2n, reg, niter, [tau, lamb]) or to
\* the exception of a solve
RECURSIVE BackendLoop(_, _, _, _)
BackendLoop(b, sol0_, i, fuel) ==
    IF ~LoopCond(b, inp.conv_crit)
    THEN [end |-> "returned",
          ret |-> <<b.sol, b.mu1, b.chi2n, b.reg, b.niter, <<b.tau, b.lamb>>>>,
          trace |-> b.trace]
    ELSE IF fuel = 0
    THEN [end |-> "running", ret |-> << >>, trace |-> b.trace]
    ELSE LET o == CHOOSE x \in RoundSolveAt(b) : TRUE
         IN  IF o.raised
             THEN [end |-> "raised", ret |-> << >>, trace |-> b.trace]
             ELSE BackendLoop(
                      BackendRound(sparse,
                                   FactorStep(inp.method, i, b,
                                              SystemMatrix(sparse, TTn, b.mu0, R)),
                                   o.sol, sol0_, Tn, R, data_n[i],
                                   inp.kwdargs, nchan, nbs),
                      UpdateSol0(sol0_, o.sol), i, fuel - 1)

\* the backend of sample number i called with the array sol0_ in place of
\* the time loop's, everything else as the time loop passed it
BackendCall(sol0_, i) ==
    BackendLoop(BackendInit(sparse, inp.verb, mu0_in[i], sol0_, Tn, R, data_n[i],
                            inp.kwdargs, nchan, nbs),
                sol0_, i, MaxRounds)

\* one round of the backend's while loop; sol0 is the caller's array, which
\* the round updates in place
Iterate ==
    /\ step' = ~step
    /\ pc = "iterate"
    /\ LoopCond(bk, inp.conv_crit)
    /\ \E o \in RoundSolve :
          /\ ~o.raised
          /\ bk' = BackendRound(sparse,
                                FactorStep(inp.method, ii + 1, bk,
                                           SystemMatrix(sparse, TTn, bk.mu0, R)),
                                o.sol, sol0, Tn, R, data_n[ii + 1],
                                inp.kwdargs, nchan, nbs)
          /\ sol0' = UpdateSol0(sol0, o.sol)
    /\ UNCHANGED <<pc, err, inp, R, Tn, TTn, Tyn, data_n, mu0, ii,
                   sol, mu, chi2n, regularity, niter, spec, sol0_in, mu0_in, prev,
                   hist, sol_full, ret, coll>>

\* a time loop that notes the exception of a solve and goes on with the next
\* sample
SolveRaisesSkips ==
    /\ step' = ~step
    /\ pc = "iterate"
    /\ LoopCond(bk, inp.conv_crit)
    /\ \E o \in RoundSolve : o.raised
    /\ pc' = "loop"
    /\ ii' = ii + 1
    /\ err' = "LinAlgError"
    /\ hist' = Append(hist, [ret |-> InitialOutputs, res2_pos |-> FALSE,
                             trace |-> bk.trace, steps |-> bk.steps])
    /\ UNCHANGED <<inp, R, Tn, TTn, Tyn, data_n, sol0, mu0,
                   sol, mu, chi2n, regularity, niter, spec, bk, sol0_in, mu0_in, prev,
                   sol_full, ret, coll>>

\* a round whose solve raises: the exception leaves the backend, the time loop
\* and compute_inversions
SolveRaises ==
    /\ step' = ~step
    /\ pc = "iterate"
    /\ LoopCond(bk, inp.conv_crit)
    /\ \E o \in RoundSolve : o.raised
    /\ pc' = "raised"
    /\ err' = "LinAlgError"
    /\ UNCHANGED <<inp, R, Tn, TTn, Tyn, data_n, sol0, mu0, ii,
                   sol, mu, chi2n, regularity, niter, spec, bk, sol0_in, mu0_in, prev,
                   hist, sol_full, ret, coll>>

\* an assignment to the slice arr[:i+1]
SetItemUpTo(arr, i, x) == [t \in 1..Len(arr) |-> IF t <= i + 1 THEN x ELSE arr[t]]

\* arr[i] = x for the 0-based index i
SetItem(arr, i, x) == [arr EXCEPT ![i + 1] = x]

\* a post step that goes back to the first guess when chaining
PostSol0Reset(chain, sol0_, sol_) ==
    IF chain THEN InitialGuess(inp.data, inp.matrix) ELSE sol_

\* the array sol0 after the post step of the time loop, which found sol_
PostSol0(chain, sol0_, sol_) == IF chain THEN sol_ ELSE sol0_

\* a post step that carries mu0 only when chaining
PostMu0Chained(mu0_, mu_) == IF inp.chain THEN mu_ ELSE mu0_

\* the mu0 of the time loop after its post step
PostMu0(mu0_, mu_) == mu_

\* the backend returns (sol, mu1, chi2n, reg, niter, [tau, lamb]); the time
\* loop writes the tuple at index ii and runs its post step
EndSample ==
    /\ step' = ~step
    /\ pc = "iterate"
    /\ ~LoopCond(bk, inp.conv_crit)
    /\ sol' = SetItem(sol, ii, bk.sol)
    /\ mu' = SetItem(mu, ii, bk.mu1)
    /\ chi2n' = SetItem(chi2n, ii, bk.chi2n)
    /\ regularity' = SetItem(regularity, ii, bk.reg)
    /\ niter' = SetItem(niter, ii, bk.niter)
    /\ spec' = SetItem(spec, ii, <<bk.tau, bk.lamb>>)
    /\ sol0' = PostSol0(inp.chain, sol0, sol'[ii + 1])
    /\ mu0' = PostMu0(mu0, mu'[ii + 1])
    /\ ii' = ii + 1
    /\ pc' = "loop"
    /\ hist' = Append(hist, [ret |-> <<bk.sol, bk.mu1, bk.chi2n, bk.reg, bk.niter,
                                       <<bk.tau, bk.lamb>>>>,
                             res2_pos |-> bk.res2_pos, trace |-> bk.trace,
                             steps |-> bk.steps])
    /\ UNCHANGED <<err, inp, R, Tn, TTn, Tyn, data_n, bk, sol0_in, mu0_in, prev,
                   sol_full, ret, coll>>

\* the time loop is over with crop True: sol_full is built, and the results
\* are stored in the collection (store True) or returned
Finish ==
    /\ step' = ~step
    /\ pc = "loop"
    /\ ii = nt
    /\ inp.crop
    /\ sol_full' = Scatter(sol, IndR(inp.shapebs, inp.cropbs),
                           IndZ(inp.shapebs, inp.cropbs), inp.shapebs)
    /\ IF inp.store
       THEN /\ coll' = CollUpdate(coll, Dobj(inp, Keyinv(Ninv(coll))),
                                  Ddata(inp, Keyinv(Ninv(coll)), sol_full',
                                        chi2n, mu, regularity, niter))
            /\ ret' = ReturnedNone
       ELSE /\ coll' = coll
            /\ ret' = ReturnedTuple(<<sol_full', mu, chi2n, regularity, niter, spec>>)
    /\ pc' = "done"
    /\ UNCHANGED <<err, inp, R, Tn, TTn, Tyn, data_n, sol0, mu0, ii,
                   sol, mu, chi2n, regularity, niter, spec, bk, sol0_in, mu0_in, prev,
                   hist>>

\* the time loop is over with crop False: sol_full was never bound, and the
\* first read of it (in the ddata of a stored run, in the tuple of the others)
\* raises before anything is stored or returned
FinishUnbound ==
    /\ step' = ~step
    /\ pc = "loop"
    /\ ii = nt
    /\ ~inp.crop
    /\ pc' = "raised"
    /\ err' = "UnboundLocalError"
    /\ UNCHANGED <<inp, R, Tn, TTn, Tyn, data_n, sol0, mu0, ii,
                   sol, mu, chi2n, regularity, niter, spec, bk, sol0_in, mu0_in, prev,
                   hist, sol_full, ret, coll>>

Next ==
    \/ Prepare
    \/ RaiseUnknownOperator
    \/ BeginSample
    \/ Iterate
    \/ SolveRaises
    \/ EndSample
    \/ Finish
    \/ FinishUnbound

---------------------------------------------------------------------------
(* The inputs explored.  Numbers are given as integers and scaled.         *)

FromVec(v) == [k \in 1..Len(v) |-> FromInt(v[k])]
FromMat(A) == [c \in 1..Len(A) |-> FromVec(A[c])]

\* operator names: the three the code knows and one it does not
Operators == KnownOperators \cup {"D1N1"}

\* two geometry matrices (nchan = nbs = 2) with disjoint column supports; the
\* second leaves the second basis function unseen
Matrices == {FromMat(<<<<1, 0>>, <<0, 2>>>>), FromMat(<<<<1, 0>>, <<2, 0>>>>)}

\* opmat for a two-component operator
OpMat == <<FromMat(<<<<1, 0>>, <<0, 0>>>>), FromMat(<<<<0, 0>>, <<0, 1>>>>)>>

\* the measurement rows; the first is a sample without signal
Rows == {FromVec(<<0, 0>>), FromVec(<<2, 4>>), FromVec(<<4, 2>>)}

\* data of nt = 1..MaxNt samples
DataSets == UNION {[1..n -> Rows] : n \in 1..MaxNt}

\* sigma: one row for all times, or one row per time
SigmaSets(n) ==
    {<<FromVec(<<1, 1>>)>>} \cup
    (IF n > 1
     THEN {[t \in 1..n |-> IF t = 1 THEN FromVec(<<1, 1>>) ELSE FromVec(<<2, 1>>)]}
     ELSE {})

\* the keyword bag of the backends
Kwdargs(d, conv_reg) ==
    [a0 |-> 1, b0 |-> 2, a1 |-> 1, b1 |-> 3, d |-> d,
     conv_reg |-> conv_reg, nbs_fixed |-> FALSE]

\* the keyword bag with nbs_fixed set and the given a0
KwdargsFixed(a0) == [Kwdargs(0, TRUE) EXCEPT !.nbs_fixed = TRUE, !.a0 = a0]

\* conv_crit = 0.2
ConvCrit == Scale \div 5

\* the shapes of the grid of basis functions
Shapes == {<<2, 2>>, <<3, 2>>, <<2, 3>>}

\* the crop masks of a grid that keep n basis functions
Masks(shape, n) ==
    {m \in [1..shape[1] -> [1..shape[2] -> BOOLEAN]] :
        Cardinality({cell \in (1..shape[1]) \X (1..shape[2]) :
                        m[cell[1]][cell[2]]}) = n}

\* what compute_inversions is asked to report and to do with its results:
\* nothing printed, the results returned, on a grid of one row that is kept
\* whole
PlainOut ==
    [verb |-> 0, store |-> FALSE, crop |-> TRUE, shapebs |-> <<1, 2>>,
     cropbs |-> <<<<TRUE, TRUE>>>>, key_sigma |-> NoKey]

\* the results returned through each mask of each shape
CropOuts ==
    UNION {{[PlainOut EXCEPT !.shapebs = sh, !.cropbs = m] : m \in Masks(sh, 2)} :
           sh \in Shapes}

\* the results stored, with and without a key for sigma
StoreOuts ==
    {[PlainOut EXCEPT !.store = TRUE, !.key_sigma = k] : k \in {NoKey, <<"s">>}}

\* crop False, the results returned or stored
UncroppedOuts ==
    {[PlainOut EXCEPT !.crop = FALSE, !.store = st] : st \in BOOLEAN}

\* progress printed
VerbOuts == {[PlainOut EXCEPT !.verb = v] : v \in {1, 2}}

\* the inputs drawn from the given sets; the two builds are told apart for
\* the backend whose solve depends on the build
InputsFrom(ops, methods, chains, kws, matrices, datas, outs) ==
    UNION {
        {i \in
         {[operator |-> op, method |-> m, chain |-> ch, conv_crit |-> ConvCrit,
          kwdargs |-> kw, matrix |-> M, opmat |-> OpMat,
          data |-> dat, sigma |-> sg, key_data |-> <<"y">>,
          verb |-> o.verb, store |-> o.store, crop |-> o.crop,
          shapebs |-> o.shapebs, cropbs |-> o.cropbs, key_sigma |-> o.key_sigma,
          maxiter |-> 2, nan_raises |-> nr] :
            op \in ops, m \in methods, ch \in chains, kw \in kws,
            M \in matrices, sg \in SigmaSets(Len(dat)), o \in outs,
            nr \in BOOLEAN} :
         i.nan_raises \/ i.method = "inv_linear_augTikho_chol"} :
        dat \in datas}

InputsOf(ops, methods, matrices) ==
    InputsFrom(ops, methods, BOOLEAN,
               {Kwdargs(d, cr) : d \in {0, 1}, cr \in BOOLEAN},
               matrices, DataSets, {PlainOut})

\* the data in which every sample has a signal
SignalData == {dat \in DataSets : \A t \in 1..Len(dat) : dat[t] # FromVec(<<0, 0>>)}

\* the calls that differ in what happens after the time loop, and in verb;
\* the stored runs also with the operator name the code does not know
OutInputs ==
    InputsFrom({"D1N2"}, {"inv_linear_augTikho_v1"}, {FALSE}, {Kwdargs(0, TRUE)},
               {FromMat(<<<<1, 0>>, <<0, 2>>>>)}, SignalData,
               CropOuts \cup StoreOuts \cup UncroppedOuts \cup VerbOuts)
    \cup
    InputsFrom({"D1N1"}, {"inv_linear_augTikho_v1"}, {FALSE}, {Kwdargs(0, TRUE)},
               {FromMat(<<<<1, 0>>, <<0, 2>>>>)}, SignalData, StoreOuts)

\* the sparse Cholesky backend on data whose first sample is a measurement
\* whose squared residual overflows
OverflowInputs ==
    InputsFrom({"D1N2"}, {"inv_linear_augTikho_chol_sparse"}, {FALSE},
               {Kwdargs(1, TRUE)}, {FromMat(<<<<1, 0>>, <<0, 2>>>>)},
               {<<FromVec(<<1000, 1000>>)>>,
                <<FromVec(<<1000, 1000>>), FromVec(<<2, 4>>)>>}, {PlainOut})

\* every backend with nbs_fixed set, for two values of a0
FixedInputs ==
    InputsFrom({"D1N2"}, Methods, {FALSE}, {KwdargsFixed(1), KwdargsFixed(2)},
               {FromMat(<<<<1, 0>>, <<0, 2>>>>)}, {<<FromVec(<<2, 4>>)>>}, {PlainOut})

\* every backend with the operators that differ in R; the operator names that
\* add no other R (D2N2, and the unknown one) with the first backend
Inputs ==
    InputsOf({"D0N2", "D1N2"}, Methods, Matrices) \cup
    InputsOf(Operators \ {"D0N2", "D1N2"}, {"inv_linear_augTikho_v1"}, Matrices)
    \cup OutInputs \cup OverflowInputs \cup FixedInputs

\* the items of a collection that holds the inversions of the indices in S,
\* and the data under key_data
OldItem == [data |-> << >>, ref |-> <<"old">>]

CollOf(S) ==
    [has_inversions |-> S # {},
     inversions |-> [k \in {Keyinv(n) : n \in S} |-> [sol |-> k]],
     ddata |-> [k \in {<<"y">>} \cup UNION {{Keyinv(n), Chi2nKey(Keyinv(n)),
                                             MuKey(Keyinv(n)), RegKey(Keyinv(n)),
                                             NiterKey(Keyinv(n))} : n \in S}
                   |-> OldItem]]

\* the collections a stored run starts from: without inversions, and with
\* inversions whose indices have a gap or two digits
Colls == {CollOf({}), CollOf({0}), CollOf({0, 2}), CollOf({9, 10})}

\* a run that stores nothing is examined with one collection
CollsFor(i) == IF i.store THEN Colls ELSE {CollOf({})}

\* one call of compute_inversions on any of the inputs
Init ==
    \E i \in Inputs : \E c \in CollsFor(i) :
        Entry(i) /\ coll = c /\ prev = NoCall /\ step = FALSE

Spec == Init /\ [][Next]_vars

\* the calls on which termination is examined: the inputs with chaining and
\* d = 1, and those with crop False
InitFair ==
    \E i \in Inputs :
        /\ (i.chain /\ i.kwdargs.d = 1) \/ ~i.crop
        /\ Entry(i) /\ coll = CollOf({}) /\ prev = NoCall /\ step = FALSE

\* a step of a call that has not ended.  Before the end one of the actions of
\* Next is enabled (at "start" Prepare or RaiseUnknownOperator, at "loop"
\* BeginSample or Finish, at "iterate" Iterate, SolveRaises or EndSample) and
\* every action flips step, so this is enabled when Next is and it is taken
\* when Next is
Tick == pc \notin {"done", "raised"} /\ step' = ~step

\* one call under the scheduling of a sequential program: the call goes on
\* until it has ended
SpecFair == InitFair /\ [][Next]_vars /\ WF_step(Tick)

\* every system the backends solve in these runs is diagonal, but for the
\* NaN of a dense product with a non-finite mu0
SystemsDiagonal ==
    pc = "iterate" =>
        LET A == SystemMatrix(sparse, TTn, bk.mu0, R)
        IN  \A i \in 1..NRows(A) : \A j \in 1..NCols(A) :
                i # j => A[i][j] = 0 \/ (A[i][j] = NaN /\ ~sparse /\ ~IsFinite(bk.mu0))

---------------------------------------------------------------------------
(* Two calls in a row, to compare runs: when the first call is over, its   *)
(* inputs and what it wrote are kept in prev and compute_inversions is     *)
(* called again on inputs that differ from the first in one place.         *)

\* what a finished call leaves behind
Snapshot ==
    [called |-> TRUE, inp |-> inp, pc |-> pc, err |-> err, ii |-> ii,
     sol |-> sol, mu |-> mu, chi2n |-> chi2n, regularity |-> regularity,
     niter |-> niter, spec |-> spec, sol0_in |-> sol0_in, mu0_in |-> mu0_in,
     hist |-> hist, ret |-> ret]

\* the inputs that differ from i by the chain flag, or by the data of one
\* time index
Variants(i) ==
    ({[i EXCEPT !.chain = ~i.chain]} \cup
     {[i EXCEPT !.data[t] = r] : t \in 1..Len(i.data), r \in Rows}) \ {i}

\* the state at the entry of a further call: the locals are new, the
\* collection is the one the call before left
Reentered ==
    /\ pc' = "start"
    /\ err' = ""
    /\ R' = << >> /\ Tn' = << >> /\ TTn' = << >> /\ Tyn' = << >> /\ data_n' = << >>
    /\ sol0' = << >> /\ mu0' = NaN
    /\ ii' = 0
    /\ sol' = << >> /\ mu' = << >> /\ chi2n' = << >> /\ regularity' = << >>
    /\ niter' = << >> /\ spec' = << >>
    /\ bk' = NoBackend
    /\ sol0_in' = << >> /\ mu0_in' = << >>
    /\ hist' = << >> /\ sol_full' = << >> /\ ret' = NotReturned
    /\ coll' = coll

CallAgain ==
    /\ step' = ~step
    /\ pc \in {"done", "raised"}
    /\ prev = NoCall
    /\ prev' = Snapshot
    /\ inp' \in Variants(inp)
    /\ Reentered

\* the first call of two: a dense and a sparse backend, without chaining, with
\* one sigma for all times, nothing printed and the grid of one row
PairMethods == {"inv_linear_augTikho_v1", "inv_linear_augTikho_chol_sparse"}

PairInputs ==
    {i \in Inputs : /\ i.method \in PairMethods /\ ~i.chain /\ Len(i.sigma) = 1
                    /\ i.shapebs = PlainOut.shapebs /\ i.verb = 0}

InitPair ==
    \E i \in PairInputs : \E c \in CollsFor(i) :
        Entry(i) /\ coll = c /\ prev = NoCall /\ step = FALSE

NextPair == Next \/ CallAgain

SpecPair == InitPair /\ [][NextPair]_vars

---------------------------------------------------------------------------
(* Two calls that differ by verb, and two calls that differ by the backend.*)

\* the same call with another verbosity
CallVerb ==
    /\ step' = ~step
    /\ pc \in {"done", "raised"}
    /\ prev = NoCall
    /\ prev' = Snapshot
    /\ inp' \in {[inp EXCEPT !.verb = v] : v \in {0, 1, 2} \ {inp.verb}}
    /\ Reentered

\* the first call of two: every backend with D0N2, the unknown operator, the
\* stored and the uncropped runs; without chaining, with one sigma for all
\* times and the grid of one row
VerbInputs ==
    {i \in Inputs : /\ ~i.chain /\ Len(i.sigma) = 1
                    /\ i.shapebs = PlainOut.shapebs
                    /\ i.operator \in {"D0N2", "D1N1"} \/ i.store \/ ~i.crop}

InitVerb ==
    \E i \in VerbInputs : \E c \in CollsFor(i) :
        Entry(i) /\ coll = c /\ prev = NoCall /\ step = FALSE

NextVerb == Next \/ CallVerb

SpecVerb == InitVerb /\ [][NextVerb]_vars

\* the same call with another backend
CallBackend ==
    /\ step' = ~step
    /\ pc \in {"done", "raised"}
    /\ prev = NoCall
    /\ prev' = Snapshot
    /\ inp' \in {[inp EXCEPT !.method = m] : m \in Methods \ {inp.method}}
    /\ Reentered

\* the first call of two: without chaining, with one sigma for all times,
\* nothing printed or stored and the grid of one row
BackendInputs ==
    {i \in Inputs : /\ ~i.chain /\ Len(i.sigma) = 1
                    /\ i.shapebs = PlainOut.shapebs /\ i.verb = 0 /\ ~i.store}

InitBackends ==
    \E i \in BackendInputs :
        Entry(i) /\ coll = CollOf({}) /\ prev = NoCall /\ step = FALSE

NextBackends == Next \/ CallBackend

SpecBackends == InitBackends /\ [][NextBackends]_vars

\* the same call with another maxiter (a first call has maxiter = 2)
CallMaxiter ==
    /\ step' = ~step
    /\ pc \in {"done", "raised"}
    /\ prev = NoCall
    /\ prev' = Snapshot
    /\ inp' \in {[inp EXCEPT !.maxiter = m] : m \in {1, 2, 100} \ {inp.maxiter}}
    /\ Reentered

\* the first call of two: without chaining, with one sigma for all times,
\* nothing printed and the grid of one row
MaxiterInputs ==
    {i \in Inputs : /\ ~i.chain /\ Len(i.sigma) = 1
                    /\ i.shapebs = PlainOut.shapebs /\ i.verb = 0}

InitMaxiter ==
    \E i \in MaxiterInputs :
        Entry(i) /\ coll = CollOf({}) /\ prev = NoCall /\ step = FALSE

NextMaxiter == Next \/ CallMaxiter

SpecMaxiter == InitMaxiter /\ [][NextMaxiter]_vars

\* the calls whose backends are run again as functions of their sol0: those
\* without chaining (no backend reads chain, and the array the time loop
\* passes is the same with it)
SpecGuess ==
    /\ \E i \in {j \in Inputs : ~j.chain} :
          Entry(i) /\ coll = CollOf({}) /\ prev = NoCall /\ step = FALSE
    /\ [][Next]_vars

---------------------------------------------------------------------------
(* Properties of one call (Spec, SpecFair).                                *)

\* the samples written so far are those of the time indices 1..ii
Written == 1..ii

\* the backend invocation of the last sample written has returned, and bk
\* still holds its locals
BackendReturned == pc \in {"loop", "done"} /\ ii > 0

\* C1: a backend that returns has run at least two rounds, whichever of the
\* four backends it is, so every niter[t] the time loop writes is >= 2
C1_NiterAtLeastTwo ==
    /\ BackendReturned => bk.niter >= 2
    /\ \A t \in Written : niter[t] >= 2

\* a run of each kind of backend that wrote a sample after exactly two rounds
\* and another after more
C1_Witness ==
    /\ pc = "done" /\ nt = 2
    /\ inp.method = "inv_linear_augTikho_chol_sparse"
    /\ niter[1] = 2 /\ niter[2] > 2

\* C2: when a backend returns, the conv of its last round is <= conv_crit,
\* whatever res2, reg and mu1 were (zero or non-finite included)
C2_ConvWithinCrit == BackendReturned => FLe(bk.conv, inp.conv_crit)

\* C3: every call ends: each sample's backend returns or raises, so the run
\* completes its nt samples or raises
C3_EveryRunEnds == <>(pc \in {"done", "raised"})

\* a non-finite value among the quantities of a round
NonFinite(b) ==
    \E x \in {b.chi2n, b.reg, b.lamb, b.tau, b.mu1, b.conv} : ~IsFinite(x)

\* C4: a sample in whose loop a non-finite value (res2, reg, lamb, tau, mu1 or
\* conv) was produced is not written: the backend raised instead of returning
C4_NonFiniteNeverReturned == BackendReturned => ~NonFinite(bk)

\* C5: with chain = True the sol0 the backend receives at each sample after the
\* first is the solution written for the sample before
C5_ChainedGuess ==
    inp.chain => \A t \in 2..Len(sol0_in) : sol0_in[t] = sol[t - 1]

\* a chained run of two samples whose second sample started from the first's
\* solution, which is not the first guess
C5_Witness ==
    /\ inp.chain /\ pc = "done" /\ nt = 2
    /\ sol0_in[2] = sol[1]
    /\ sol0_in[2] # sol0_in[1]
    /\ AllFinite(sol[1])

\* C8: whatever chain is, the mu0 the backend receives is 1 at the first sample
\* and the mu written for the sample before at every other
C8_Mu0Carried ==
    \A t \in 1..Len(mu0_in) :
        mu0_in[t] = IF t = 1 THEN FromInt(1) ELSE mu[t - 1]

\* a run without chaining whose second sample received the first's mu, not 1
C8_Witness ==
    /\ ~inp.chain /\ pc = "done" /\ nt = 2
    /\ mu0_in[1] = FromInt(1)
    /\ mu0_in[2] = mu[1]
    /\ mu0_in[2] # FromInt(1)
    /\ IsFinite(mu[1])

\* C10: R is opmat[0] for D0N2 and opmat[0] + opmat[1] for D1N2 and for D2N2
\* (opmat is indexed from 1 here); no other operator name gets an R
C10_OperatorSelection ==
    /\ (pc # "start" /\ inp.operator = "D0N2") => R = inp.opmat[1]
    /\ (pc # "start" /\ inp.operator \in {"D1N2", "D2N2"})
           => R = MatAdd(inp.opmat[1], inp.opmat[2])
    /\ inp.operator \notin {"D0N2", "D1N2", "D2N2"}
           => R = << >> /\ pc \in {"start", "raised"}

\* a run with D1N2 whose R is the sum of the two components, which differs
\* from the first component alone
C10_Witness ==
    /\ pc = "done" /\ inp.operator = "D1N2"
    /\ R = MatAdd(inp.opmat[1], inp.opmat[2])
    /\ R # inp.opmat[1]

\* C11: a call with an operator name other than D0N2, D1N2, D2N2 raises at
\* once: the backend is never called, the output arrays and sol_full are never
\* made, nothing is returned, the collection is left as it was, and the call
\* stays raised
C11_UnknownOperatorRaisesFirst ==
    /\ [](inp.operator \notin {"D0N2", "D1N2", "D2N2"} =>
            /\ pc \in {"start", "raised"}
            /\ bk = NoBackend /\ sol0_in = << >> /\ hist = << >>
            /\ sol = << >> /\ mu = << >> /\ niter = << >> /\ sol_full = << >>
            /\ ret = NotReturned)
    /\ [][inp.operator \notin {"D0N2", "D1N2", "D2N2"} =>
            /\ inp' = inp /\ coll' = coll
            /\ pc' = "raised" /\ err' = "unknown operator!"]_vars

\* a call with an unknown operator that was to store its results in a
\* collection that holds inversions, and raised
C11_Witness ==
    /\ pc = "raised" /\ err = "unknown operator!"
    /\ inp.operator = "D1N1" /\ inp.store
    /\ coll = CollOf({0, 2})

\* what the output arrays hold at time index t (1-based)
OutputsAt(t) == <<sol[t], mu[t], chi2n[t], regularity[t], niter[t], spec[t]>>

\* C12: from the moment the time loop has processed sample t the output
\* arrays hold at t the tuple its backend returned, whatever happens later
\* (the rounds of later samples, which update sol0 in place, included), and
\* until then they hold their initial values there
C12_WriteOnce ==
    \A t \in 1..Len(sol) :
        OutputsAt(t) = IF t <= ii THEN hist[t].ret ELSE InitialOutputs

\* the second sample of a run is in its rounds and has updated sol0, the first
\* sample was written and the second was not
C12_Witness ==
    /\ pc = "iterate" /\ nt = 2 /\ ii = 1 /\ bk.niter >= 1
    /\ AllFinite(sol[1]) /\ sol0 # sol[1]
    /\ OutputsAt(1) = hist[1].ret
    /\ OutputsAt(2) = InitialOutputs

\* C13: once the backend has raised at time index k (ii = k, 0-based) the
\* call is over: sample k was handed to the backend once and no later sample
\* was, the arrays hold what was written for the indices below k and their
\* initial values from k on, and nothing is returned or stored
C13_BackendErrorFatal ==
    err = "LinAlgError" =>
        /\ pc = "raised" /\ ii < nt
        /\ Len(sol0_in) = ii + 1 /\ Len(hist) = ii
        /\ \A t \in 1..nt :
              OutputsAt(t) = IF t <= ii THEN hist[t].ret ELSE InitialOutputs
        /\ ret = NotReturned /\ sol_full = << >>

\* a run whose first sample was written and whose second sample raised
C13_Witness ==
    /\ pc = "raised" /\ err = "LinAlgError" /\ nt = 2 /\ ii = 1
    /\ niter[1] >= 2 /\ AllFinite(sol[1])
    /\ OutputsAt(2) = InitialOutputs

\* the cells of the grid the crop mask keeps, as <<row, column>> from 1
KeptCells ==
    {cell \in (1..inp.shapebs[1]) \X (1..inp.shapebs[2]) :
        inp.cropbs[cell[1]][cell[2]]}

\* the place of a kept cell among the kept cells taken column after column
RankF(cell) ==
    Cardinality({o \in KeptCells :
                    o[2] < cell[2] \/ (o[2] = cell[2] /\ o[1] <= cell[1])})

\* C15: in a call that went through with crop True, for every time index the
\* k-th entry of sol is in the cell of sol_full that is the k-th kept cell of
\* the mask taken column after column, so that reading sol_full over the mask
\* in that order gives sol back, and the cells written are nbs different cells
C15_CropRoundTrip ==
    pc = "done" =>
        /\ \A t \in 1..nt : \A cell \in KeptCells :
              sol_full[t][cell[1]][cell[2]] = sol[t][RankF(cell)]
        /\ Cardinality({<<IndR(inp.shapebs, inp.cropbs)[k],
                          IndZ(inp.shapebs, inp.cropbs)[k]>> : k \in 1..nbs}) = nbs
        /\ Len(IndR(inp.shapebs, inp.cropbs)) = nbs

\* a run on a grid of 3 rows and 2 columns that keeps the last cell of the
\* first column and the first of the second, with a solution whose two
\* entries differ
C15_Witness ==
    /\ pc = "done" /\ inp.shapebs = <<3, 2>>
    /\ KeptCells = {<<3, 1>>, <<1, 2>>}
    /\ AllFinite(sol[1]) /\ sol[1][1] # sol[1][2]
    /\ sol_full[1][3][1] = sol[1][1] /\ sol_full[1][1][2] = sol[1][2]
    /\ sol_full[1][2][2] = 0

\* the call is over and its time loop went through every sample
LoopCompleted == pc \in {"done", "raised"} /\ Len(hist) = nt

\* C16: a call whose time loop went through ends by returning the tuple
\* (sol_full, mu, chi2n, regularity, niter, spec) when store is False and by
\* storing the results in the collection, returning nothing, when store is
\* True; with crop True as with crop False, sol_full being bound in both
C16_ReturnsOrStores ==
    LoopCompleted =>
        /\ pc = "done"
        /\ sol_full # << >>
        /\ ~inp.store =>
              ret = ReturnedTuple(<<sol_full, mu, chi2n, regularity, niter, spec>>)
        /\ inp.store =>
              /\ ret = ReturnedNone
              /\ \E k \in DOMAIN coll.inversions :
                    /\ coll.inversions[k].sol = k
                    /\ coll.ddata[k].data = sol_full

\* a0bis > 0, a1bis > 0, b0 > 0, b1 > 0 and R positive semi-definite (R is
\* diagonal: no negative entry on the diagonal)
PositivityHolds ==
    /\ FGt(A0bis(inp.kwdargs, nbs), 0) /\ FGt(A1bis(inp.kwdargs, nchan), 0)
    /\ inp.kwdargs.b0 > 0 /\ inp.kwdargs.b1 > 0
    /\ R # << >>
    /\ \A k \in 1..NRows(R) : FLe(0, R[k][k])

\* C19: with positive hyperparameters and a positive semi-definite R, every
\* mu[t] written for a sample in all of whose rounds res2 was > 0 is > 0, and
\* so is the mu0 the next sample's first solve gets
C19_MuPositive ==
    PositivityHolds =>
        \A t \in Written :
            hist[t].res2_pos =>
                /\ FGt(mu[t], 0)
                /\ t + 1 <= Len(mu0_in) => FGt(mu0_in[t + 1], 0)

\* a run of two samples with res2 > 0 in every round, whose second sample
\* started from the mu of the first, which is not the initial 1.
C19_Witness ==
    /\ pc = "done" /\ nt = 2 /\ PositivityHolds
    /\ hist[1].res2_pos /\ hist[2].res2_pos
    /\ FGt(mu[1], 0) /\ mu[1] # FromInt(1) /\ mu0_in[2] = mu[1]
    /\ FGt(mu[2], 0)

\* the dense Cholesky backend is about to run a round whose factorisation or
\* Cholesky solve fails
CholFails ==
    /\ inp.method = "inv_linear_augTikho_chol"
    /\ pc = "iterate" /\ LoopCond(bk, inp.conv_crit)
    /\ ~CholOk(SystemMatrix(sparse, TTn, bk.mu0, R), Tyn)

\* C20: a round of the dense Cholesky backend whose factorisation or Cholesky
\* solve fails raises nothing: the round goes on, as any round does, with the
\* solution of the general symmetric solve, and the backend stays in its loop,
\* where the next round tries the factorisation again
C20_CholFailureFallsBack ==
    [][CholFails =>
          /\ pc' = "iterate" /\ err' = err
          /\ \E o \in SolveSym(SystemMatrix(sparse, TTn, bk.mu0, R), Tyn) :
                /\ ~o.raised
                /\ bk' = BackendRound(sparse, bk, o.sol, sol0, Tn, R, data_n[ii + 1],
                                      inp.kwdargs, nchan, nbs)]_vars

\* the sparse Cholesky backend has been invoked
InCholSparse ==
    inp.method = "inv_linear_augTikho_chol_sparse" /\ pc \in {"iterate", "loop", "done"}
    /\ bk # NoBackend

\* what the rounds of one invocation did with factor: failed builds, then one
\* build, then updates (failed or not) of the object that was built
OneObject(st) ==
    \A r \in 1..Len(st) :
        /\ st[r].op \in {"build", "build failed", "update", "update failed"}
        /\ st[r].op = "build failed" =>
              \A q \in 1..(r - 1) : st[q].op = "build failed"
        /\ st[r].op = "build" =>
              /\ st[r].obj # 0
              /\ \A q \in 1..(r - 1) : st[q].op = "build failed"
        /\ st[r].op \in {"update", "update failed"} =>
              \E q \in 1..(r - 1) :
                  /\ st[q].op = "build" /\ st[q].obj = st[r].obj
                  /\ \A k \in (q + 1)..(r - 1) : st[k].op \in {"update", "update failed"}

\* C21: in one invocation of the sparse Cholesky backend the rounds before
\* the first successful factorisation build nothing that lasts, that round
\* builds the one factorisation object and every later round updates that
\* object in place; a round whose build or update fails takes the solution of
\* the sparse direct solve, a round whose build or update succeeds takes the
\* solution of the factorisation, whatever the round before did
C21_OneFactorPerInvocation ==
    /\ [](InCholSparse => OneObject(bk.steps))
    /\ [][(InCholSparse /\ pc = "iterate" /\ pc' = "iterate" /\ bk' # bk
            /\ Len(bk.steps) < MaxNiter) =>
             LET A == SystemMatrix(sparse, TTn, bk.mu0, R)
                 last == bk'.steps[Len(bk'.steps)]
             IN  /\ Len(bk'.steps) = Len(bk.steps) + 1
                 /\ \A r \in 1..Len(bk.steps) : bk'.steps[r] = bk.steps[r]
                 /\ PosDef(A) =>
                       /\ last.op = IF bk.factor = 0 THEN "build" ELSE "update"
                       /\ bk'.factor = last.obj
                       /\ bk'.sol = DiagSolve(A, Tyn)
                 /\ ~PosDef(A) =>
                       /\ last.op = IF bk.factor = 0 THEN "build failed"
                                                     ELSE "update failed"
                       /\ bk'.factor = bk.factor
                       /\ Returned(bk'.sol) \in SpSolve(A, Tyn)]_vars

\* a run of two samples: the first invocation built its object in the first
\* round and failed to update it in the second, which took the solution of
\* the sparse direct solve; the second invocation could build none
C21_Witness ==
    /\ InCholSparse /\ pc = "done" /\ nt = 2
    /\ Len(hist[1].steps) = 2
    /\ hist[1].steps[1] = [op |-> "build", obj |-> 1]
    /\ hist[1].steps[2] = [op |-> "update failed", obj |-> 1]
    /\ ~AllFinite(sol[1])
    /\ \A r \in 1..Len(bk.steps) : bk.steps[r].op = "build failed"
    /\ bk.factor = 0

\* C22: a run of the time loop with the sparse Cholesky backend builds at
\* most one factorisation object, and every round of a later sample that
\* factorises updates the object an earlier sample built
C22_FactorReusedAcrossSamples ==
    (inp.method = "inv_linear_augTikho_chol_sparse" /\ pc \in {"loop", "done"}) =>
        /\ Cardinality(UNION {{hist[t].steps[r].obj : r \in 1..Len(hist[t].steps)} :
                                  t \in 1..Len(hist)} \ {0}) <= 1
        /\ \A t \in 2..Len(hist) : \A r \in 1..Len(hist[t].steps) :
              (\E q \in 1..(t - 1) : hist[q].steps # << >> /\ hist[q].steps[1].op = "build")
                  => hist[t].steps[r].op # "build"

\* compute_inversions is past the intermediates it builds before the time loop
Prepared == pc \in {"loop", "iterate", "done"} \/ (pc = "raised" /\ R # << >>)

\* C23: with one sigma for all times, Tn, TTn and R are, from the start of the
\* time loop to the end of the call, those built before the loop: no pass of
\* the loop and no round of a backend changes them, nor data_n
C23_SystemKeptWhenSigmaConstant ==
    /\ []((Len(inp.sigma) = 1 /\ Prepared) =>
             /\ Tn = Normalise(inp.matrix, SigmaMean(inp.sigma))
             /\ TTn = Gram(Tn)
             /\ R = RegOperator(inp.operator, inp.opmat))
    /\ [][(Len(inp.sigma) = 1 /\ Prepared) =>
             (Tn' = Tn /\ TTn' = TTn /\ R' = R /\ data_n' = data_n)]_vars

\* a run of two samples with one sigma, whose two samples had different Tyn
\* and solutions and more than two rounds in the second
C23_Witness ==
    /\ pc = "done" /\ nt = 2 /\ Len(inp.sigma) = 1
    /\ Tyn # LoopTyn(Tn, 0) /\ sol[1] # sol[2] /\ AllFinite(sol[2])
    /\ niter[2] > 2
    /\ TTn = Gram(Normalise(inp.matrix, inp.sigma[1]))

\* the backend is solving the sample of time index ii (0-based)
Solving == pc = "iterate"

\* C24: with a sigma that varies with time, the first sample is solved with
\* the Tn and TTn built before the loop (from the mean of sigma over time)
\* and each sample ii > 0 with the Tn and TTn rebuilt from sigma[ii, :]
C24_FirstSampleNotRecomputed ==
    (Len(inp.sigma) > 1 /\ Solving) =>
        /\ ii = 0 => /\ Tn = Normalise(inp.matrix, SigmaMean(inp.sigma))
                     /\ TTn = Gram(Normalise(inp.matrix, SigmaMean(inp.sigma)))
        /\ ii > 0 => /\ Tn = Normalise(inp.matrix, inp.sigma[ii + 1])
                     /\ TTn = Gram(Normalise(inp.matrix, inp.sigma[ii + 1]))

\* C24 as amended: with a sigma that varies with time, every sample ii, the
\* first included, is solved with the Tn and TTn rebuilt from sigma[ii, :]
C24_EverySampleRecomputed ==
    (Len(inp.sigma) > 1 /\ Solving) =>
        /\ Tn = Normalise(inp.matrix, inp.sigma[ii + 1])
        /\ TTn = Gram(Normalise(inp.matrix, inp.sigma[ii + 1]))

\* the second sample of a run whose sigma varies is being solved, with a Tn
\* that is neither the one built before the loop nor the one of the first
\* sample, which was not the one built before the loop either
C24_Witness ==
    /\ Len(inp.sigma) > 1 /\ Solving /\ ii = 1 /\ bk.niter >= 1
    /\ Tn # Normalise(inp.matrix, SigmaMean(inp.sigma))
    /\ Tn # Normalise(inp.matrix, inp.sigma[1])
    /\ Normalise(inp.matrix, inp.sigma[1]) # Normalise(inp.matrix, SigmaMean(inp.sigma))

\* a backend is in its loop, or has returned and bk still holds its locals
InBackend == pc = "iterate" \/ BackendReturned

\* C26: in every backend a1bis = a1 - 1 + nchan/2; a0bis = a0 - 1 + nbs/2
\* when nbs_fixed is false, and a0bis = 600, whatever a0 and nbs, when
\* nbs_fixed is true
C26_A0bisFixedIs600 ==
    InBackend =>
        LET kw == inp.kwdargs
        IN  /\ bk.a1bis = (kw.a1 - 1) * Scale + (nchan * Scale) \div 2
            /\ ~kw.nbs_fixed => bk.a0bis = (kw.a0 - 1) * Scale + (nbs * Scale) \div 2
            /\ kw.nbs_fixed => bk.a0bis = 600 * Scale

\* C26 as amended: in every backend a1bis = a1 - 1 + nchan/2; a0bis =
\* a0 - 1 + nbs/2 when nbs_fixed is false, and a0bis = a0 - 1 + 600 when
\* nbs_fixed is true: independent of nbs, not of a0
C26_A0bisFixedIsA0Plus599 ==
    InBackend =>
        LET kw == inp.kwdargs
        IN  /\ bk.a1bis = (kw.a1 - 1) * Scale + (nchan * Scale) \div 2
            /\ ~kw.nbs_fixed => bk.a0bis = (kw.a0 - 1) * Scale + (nbs * Scale) \div 2
            /\ kw.nbs_fixed => bk.a0bis = (kw.a0 - 1) * Scale + 600 * Scale

\* the sparse Cholesky backend returned from a call with nbs_fixed and a0 = 2:
\* a0bis is 601
C26_Witness ==
    /\ BackendReturned /\ pc = "done"
    /\ inp.method = "inv_linear_augTikho_chol_sparse"
    /\ inp.kwdargs.nbs_fixed /\ inp.kwdargs.a0 = 2
    /\ bk.a0bis = 601 * Scale /\ bk.a1bis = Scale
    /\ bk.lamb = FDiv(601 * Scale, FAdd(FMul(Scale \div 2, bk.reg), 2 * Scale))

\* C27: every backend updates the caller's sol0 in place at the end of each
\* round, so when a backend returns the time loop's sol0 is the returned sol,
\* with chain = True and chain = False alike; and the time loop never goes back
\* to the first guess: each later sample starts from the solution before it
C27_Sol0UpdatedInPlace ==
    /\ (pc = "iterate" /\ bk.niter > 0) => sol0 = bk.sol
    /\ BackendReturned => sol0 = sol[ii]
    /\ \A t \in 2..Len(sol0_in) : sol0_in[t] = sol[t - 1]

\* a run without chaining whose second sample started from the solution of the
\* first, not from the first guess, and which left the solution of the second
\* in sol0
C27_Witness ==
    /\ ~inp.chain /\ pc = "done" /\ nt = 2
    /\ sol0_in[1] = InitialGuess(inp.data, inp.matrix)
    /\ sol0_in[2] = sol[1] /\ sol0_in[2] # sol0_in[1]
    /\ sol0 = sol[2] /\ sol[2] # sol[1]
    /\ AllFinite(sol[2])

\* arrays sol0 other than the time loop's
AltGuesses == {FromVec(<<0, 0>>), FromVec(<<0 - 2, 7>>)}

\* the backend of sample number i, given the array g, ends as the invocation
\* the time loop made did (outcome e, rounds tr, returned tuple r): with
\* conv_reg in every round and in the tuple, without it in all but the conv
\* of the rounds unless the tuple differs too
SameBackendRun(g, i, e, r, tr) ==
    LET c == BackendCall(g, i)
    IN  /\ (inp.kwdargs.conv_reg \/ g = sol0_in[i])
            => (c.end = e /\ c.ret = r /\ c.trace = tr)
        /\ ~inp.kwdargs.conv_reg
            => (c.trace # tr
                \/ (c.end = e /\ c.ret = r))

\* C28: with conv_reg true the tuple a backend returns does not depend on the
\* sol0 it is given: called with another sol0 and the same Tn, TTn, Tyn, R,
\* yn, mu0, conv_crit and hyperparameters it runs the same rounds and returns
\* the same (sol, mu1, chi2n, reg, niter, [tau, lamb]), or raises in the same
\* round; with conv_reg false the result changes with sol0 only if the conv
\* of a round does.  Checked when the backend has just returned or raised
C28_ReturnIndependentOfSol0 ==
    /\ (pc = "loop" /\ ii > 0 /\ Len(hist) = ii) =>
          \A g \in AltGuesses \cup {sol0_in[ii]} :
              SameBackendRun(g, ii, "returned", hist[ii].ret, hist[ii].trace)
    /\ (pc = "raised" /\ err = "LinAlgError") =>
          \A g \in AltGuesses \cup {sol0_in[ii + 1]} :
              SameBackendRun(g, ii + 1, "raised", << >>, bk.trace)

\* a call with conv_reg and verb = 2 whose backend returned a finite solution
\* after starting from an array that is none of the others tried, each of
\* which gives other chi2n and reg before the loop and the same tuple after
C28_Witness ==
    /\ pc = "loop" /\ ii = nt /\ inp.kwdargs.conv_reg /\ inp.verb = 2
    /\ sol0_in[ii] \notin AltGuesses
    /\ AllFinite(sol[ii]) /\ niter[ii] >= 2
    /\ \A g \in AltGuesses :
          /\ BackendInit(sparse, inp.verb, mu0_in[ii], g, Tn, R, data_n[ii],
                         inp.kwdargs, nchan, nbs).chi2n
             # BackendInit(sparse, inp.verb, mu0_in[ii], sol0_in[ii], Tn, R,
                           data_n[ii], inp.kwdargs, nchan, nbs).chi2n
          /\ BackendCall(g, ii).ret = hist[ii].ret

\* the sigma row that normalises the sample in the backend, or just returned
SampleNo == IF pc = "iterate" THEN ii + 1 ELSE ii
SampleSigma == IF Len(inp.sigma) > 1 THEN inp.sigma[SampleNo] ELSE inp.sigma[1]

\* C29: at every time index the Tn, TTn and Tyn passed to the backend are those
\* of the sigma row s that normalised the sample's data: Tn = diag(1/s) matrix,
\* TTn = Tn^T Tn, Tyn = Tn^T data_n[ii] and data_n[ii] = data[ii] / s, with
\* s = sigma[ii] when sigma varies with time and sigma[0] otherwise; Tyn is
\* computed from the recomputed Tn
C29_SystemMatchesSigmaRow ==
    (Solving \/ BackendReturned) =>
        LET s == SampleSigma
            t == SampleNo
        IN  /\ \A c \in 1..nchan : \A k \in 1..nbs :
                  Tn[c][k] = FDiv(inp.matrix[c][k], s[c])
            /\ \A j \in 1..nbs : \A k \in 1..nbs :
                  TTn[j][k] = FSum([c \in 1..nchan |-> FMul(Tn[c][j], Tn[c][k])])
            /\ \A c \in 1..nchan : data_n[t][c] = FDiv(inp.data[t][c], s[c])
            /\ \A k \in 1..nbs :
                  Tyn[k] = FSum([c \in 1..nchan |-> FMul(Tn[c][k], data_n[t][c])])

\* the second sample of a run whose sigma varies is in its backend: Tn and
\* Tyn are not those the sigma row of the first sample gives
C29_Witness ==
    /\ Solving /\ ii = 1 /\ Len(inp.sigma) = 2
    /\ inp.sigma[2] # inp.sigma[1]
    /\ Tn # Normalise(inp.matrix, inp.sigma[1])
    /\ Tyn # MatVec(Transpose(Normalise(inp.matrix, inp.sigma[1])), data_n[2])
    /\ AllFinite(Tyn) /\ Tyn # FromVec(<<0, 0>>)

\* the backend of the sample just written returned, and its rounds were few
\* enough to be counted and recorded exactly
ReturnedCounted == BackendReturned /\ Len(hist) = ii /\ bk.niter < MaxNiter

\* the mu0 held at the start of the last round of the backend that returned:
\* the mu0 it received, or the mu1 of the round before
LastRoundMu0 ==
    IF bk.niter <= 1 THEN mu0_in[ii] ELSE bk.trace[bk.niter - 1].mu1

\* the tuple written for the sample comes from the last round: sol solves
\* the system of LastRoundMu0, chi2n, reg, tau and lamb are computed from
\* that sol, and mu is the mu1 computed after the solve
FromFinalRound ==
    LET m == LastRoundMu0
        res2 == Res2(sparse, Tn, sol[ii], data_n[ii])
        lamb == Lamb(bk.a0bis, regularity[ii], inp.kwdargs)
        tau == Tau(bk.a1bis, res2, inp.kwdargs)
    IN  /\ Returned(sol[ii])
              \in BackendSolve(inp.method, SystemMatrix(sparse, TTn, m, R), Tyn)
        /\ sol[ii] = bk.trace[bk.niter].sol
        /\ chi2n[ii] = FDiv(res2, FromInt(nchan))
        /\ regularity[ii] = Reg(sparse, R, sol[ii])
        /\ spec[ii] = <<tau, lamb>>
        /\ mu[ii] = Mu1(lamb, tau, bk.a1bis, res2, inp.kwdargs)
        /\ mu[ii] = bk.trace[bk.niter].mu1
        /\ niter[ii] = bk.niter

\* the mu written and the mu0 that produced sol differ by a relative amount
\* of at most conv_crit
MuWithinCrit ==
    FLe(FDiv(FAbs(FSub(mu[ii], LastRoundMu0)), mu[ii]), inp.conv_crit)

\* C30: the values a backend returns all come from its final round: the
\* returned sol solves (TTn + m R) sol = Tyn for the mu0 value m held at the
\* start of that round, chi2n, reg, tau and lamb are computed from that sol,
\* and the returned mu is the mu1 computed after that solve, which under
\* conv_reg differs from m by a relative amount of at most conv_crit
C30_ReturnFromFinalRound ==
    ReturnedCounted =>
        /\ FromFinalRound
        /\ inp.kwdargs.conv_reg => MuWithinCrit

---------------------------------------------------------------------------
(* Properties of two calls in a row (SpecPair).                            *)

\* both calls are over
BothOver == prev.called /\ pc \in {"done", "raised"}

\* the second call differs from the first by the chain flag only
ChainFlipped == prev.called /\ inp = [prev.inp EXCEPT !.chain = ~prev.inp.chain]

\* what the two calls wrote at time index t is the same
SameOutputs(t) ==
    /\ sol[t] = prev.sol[t] /\ mu[t] = prev.mu[t] /\ chi2n[t] = prev.chi2n[t]
    /\ regularity[t] = prev.regularity[t] /\ niter[t] = prev.niter[t]

\* C6: on the same data of more than one sample, the sol0 the backend receives
\* at the start of the samples is not the same sequence with chain = True as
\* with chain = False
C6_ChainChangesGuesses ==
    (BothOver /\ ChainFlipped /\ pc = "done" /\ prev.pc = "done" /\ nt > 1)
        => sol0_in # prev.sol0_in

\* both calls ran without chaining and wrote the sample of time index t, for
\* which they had the same data and sigma
Comparable(t) ==
    /\ prev.called /\ ~inp.chain /\ ~prev.inp.chain
    /\ t \in Written /\ t <= prev.ii
    /\ inp.data[t] = prev.inp.data[t]
    /\ SigmaRow(inp.sigma, t) = SigmaRow(prev.inp.sigma, t)

\* C7 as stated: without chaining, two runs that agree on the data and sigma
\* of a time index write the same sample there, whatever the other data
C7_IndependentSamples ==
    \A t \in 1..MaxNt : Comparable(t) => SameOutputs(t)

\* C7 amended: the same for two runs whose backend also received the same mu0
\* at that time index (1 at the first, the mu of the sample before at the
\* others)
C7_IndependentGivenMu0 ==
    \A t \in 1..MaxNt :
        (Comparable(t) /\ mu0_in[t] = prev.mu0_in[t]) => SameOutputs(t)

\* two runs without chaining that differ by the data of the second sample and
\* wrote the same first sample
C7_Witness ==
    /\ BothOver /\ pc = "done" /\ prev.pc = "done" /\ nt = 2
    /\ Comparable(1)
    /\ inp.data[2] # prev.inp.data[2]
    /\ mu0_in[1] = prev.mu0_in[1]
    /\ SameOutputs(1)
    /\ mu[2] # prev.mu[2]

\* C9: for one time sample the outputs are the same with chain = True and
\* with chain = False
C9_SingleSampleChain ==
    (BothOver /\ ChainFlipped /\ nt = 1) =>
        /\ pc = prev.pc
        /\ pc = "done" =>
              /\ sol = prev.sol /\ mu = prev.mu /\ chi2n = prev.chi2n
              /\ regularity = prev.regularity /\ niter = prev.niter
              /\ spec = prev.spec

\* two completed runs of one sample that differ by chain only
C9_Witness ==
    /\ BothOver /\ ChainFlipped /\ nt = 1 /\ pc = "done" /\ prev.pc = "done"
    /\ sol = prev.sol /\ niter[1] > 2 /\ AllFinite(sol[1])

\* the indices N of the keys invN of the inversions of the collection c
Indices(c) == {n \in 0..MaxIndex : Keyinv(n) \in DOMAIN c.inversions}

\* the keys of the entries of the inversion of index n
EntryKeys(n) ==
    {Keyinv(n), Chi2nKey(Keyinv(n)), MuKey(Keyinv(n)), RegKey(Keyinv(n)),
     NiterKey(Keyinv(n))}

\* the step adds the inversion invN for an N that no inversion has: 0 when
\* there is none, the largest N plus one otherwise. The inversions are one
\* more than before, and every inversion and every entry invN, invN-chi2n,
\* invN-mu, invN-reg, invN-niter that was there is there unchanged
AddsNewInversion ==
    LET N == IF Indices(coll) = {} THEN 0 ELSE Max(Indices(coll)) + 1
    IN  /\ N \notin Indices(coll)
        /\ Keyinv(N) \notin DOMAIN coll.inversions
        /\ DOMAIN coll'.inversions = DOMAIN coll.inversions \cup {Keyinv(N)}
        /\ Cardinality(DOMAIN coll'.inversions)
               = Cardinality(DOMAIN coll.inversions) + 1
        /\ EntryKeys(N) \cap DOMAIN coll.ddata = {}
        /\ EntryKeys(N) \subseteq DOMAIN coll'.ddata
        /\ coll'.ddata[Keyinv(N)].data = sol_full'
        /\ \A k \in DOMAIN coll.inversions :
              coll'.inversions[k] = coll.inversions[k]
        /\ \A n \in Indices(coll) : \A k \in EntryKeys(n) :
              k \in DOMAIN coll'.ddata /\ coll'.ddata[k] = coll.ddata[k]

\* C17: every key of the inversions is invN for some N, and the step that
\* ends a run with store True whose time loop went through adds the solution
\* of the run under a new key invN, N being 0 without inversions and the
\* largest index plus one otherwise, and overwrites no earlier entry
C17_EachStoredRunAddsNewKey ==
    /\ [](DOMAIN coll.inversions = {Keyinv(n) : n \in Indices(coll)})
    /\ [][(pc = "loop" /\ ii = nt /\ inp.store) => AddsNewInversion]_vars

\* the part of C17 on the keys: every step that changes the collection adds
\* a new key invN and overwrites no earlier entry
C17_StoreNeverOverwrites ==
    /\ [](DOMAIN coll.inversions = {Keyinv(n) : n \in Indices(coll)})
    /\ [][coll' # coll => AddsNewInversion]_vars

\* two stored runs in a row on a collection that held inv9 and inv10: the
\* first added inv11 and the second inv12
C17_TwoStoredRuns ==
    /\ BothOver /\ pc = "done" /\ prev.pc = "done"
    /\ inp.store /\ prev.inp.store
    /\ Indices(coll) = {9, 10, 11, 12}
    /\ coll.ddata[Keyinv(11)].data # coll.ddata[Keyinv(12)].data

---------------------------------------------------------------------------
(* Properties of two calls that differ by verb (SpecVerb).                 *)

\* the second call differs from the first by verb only
VerbChanged ==
    /\ prev.called /\ inp.verb # prev.inp.verb
    /\ inp = [prev.inp EXCEPT !.verb = inp.verb]

\* C14: two calls that differ only in verb (0, 1 or 2) end the same way, after
\* the same rounds in each sample, with the same sol, mu, chi2n, regularity,
\* niter and spec, and return the same
C14_VerbChangesNothing ==
    (BothOver /\ VerbChanged) =>
        /\ pc = prev.pc /\ err = prev.err /\ ii = prev.ii
        /\ sol = prev.sol /\ mu = prev.mu /\ chi2n = prev.chi2n
        /\ regularity = prev.regularity /\ niter = prev.niter /\ spec = prev.spec
        /\ hist = prev.hist
        /\ ret = prev.ret

\* a run of two samples with verb = 0 and the same run with verb = 2, whose
\* verb block bound chi2n and reg before the first round
C14_Witness ==
    /\ BothOver /\ VerbChanged /\ prev.inp.verb = 0 /\ inp.verb = 2
    /\ pc = "done" /\ nt = 2 /\ niter[1] > 2 /\ AllFinite(sol[2])
    /\ inp.method = "inv_linear_augTikho_chol_sparse"

---------------------------------------------------------------------------
(* Properties of two calls that differ by the backend (SpecBackends).      *)

\* the second call differs from the first by the backend only
MethodChanged ==
    /\ prev.called /\ inp.method # prev.inp.method
    /\ inp = [prev.inp EXCEPT !.method = inp.method]

\* no solve of the backend invocation h failed: none raised, since the backend
\* returned, and every solve gave a finite solution
NoSolveFailed(h) == \A r \in 1..Len(h.trace) : AllFinite(h.trace[r].sol)

\* C18: two calls that differ only in the backend start each sample from the
\* same Tn, TTn, Tyn, R, yn, sol0, mu0 and hyperparameters; for every sample
\* whose backend returned in both calls without a failed solve, the two
\* backends went through the same (sol, mu1, conv, niter) round after round
\* and returned the same (sol, mu1, chi2n, reg, niter, [tau, lamb])
C18_SameIterationContract ==
    (BothOver /\ MethodChanged) =>
        \A t \in 1..Len(hist) :
            (t <= Len(prev.hist) /\ NoSolveFailed(hist[t]) /\ NoSolveFailed(prev.hist[t])) =>
                /\ sol0_in[t] = prev.sol0_in[t] /\ mu0_in[t] = prev.mu0_in[t]
                /\ hist[t].trace = prev.hist[t].trace
                /\ hist[t].ret = prev.hist[t].ret

\* the dense Cholesky backend and then the sparse direct one on a run of two
\* samples, more than two rounds on the first, with nonzero solutions
C18_Witness ==
    /\ BothOver /\ MethodChanged /\ pc = "done" /\ prev.pc = "done" /\ nt = 2
    /\ prev.inp.method = "inv_linear_augTikho_chol"
    /\ inp.method = "inv_linear_augTikho_v1_sparse"
    /\ NoSolveFailed(hist[1]) /\ NoSolveFailed(hist[2])
    /\ Len(hist[1].trace) > 2 /\ FGt(sol[1][1], 0) /\ FGt(sol[2][2], 0)
    /\ hist = prev.hist

---------------------------------------------------------------------------
(* Properties of two calls that differ by maxiter (SpecMaxiter).           *)

\* the second call differs from the first by maxiter only
MaxiterChanged ==
    /\ prev.called /\ inp.maxiter # prev.inp.maxiter
    /\ inp = [prev.inp EXCEPT !.maxiter = inp.maxiter]

\* C25: two calls that differ only in maxiter end the same way, after the
\* same rounds in each sample, with the same sol, mu, chi2n, regularity, niter
\* and spec, and return the same: maxiter caps nothing
C25_MaxiterNotEnforced ==
    (BothOver /\ MaxiterChanged) =>
        /\ pc = prev.pc /\ err = prev.err /\ ii = prev.ii
        /\ sol = prev.sol /\ mu = prev.mu /\ chi2n = prev.chi2n
        /\ regularity = prev.regularity /\ niter = prev.niter /\ spec = prev.spec
        /\ hist = prev.hist
        /\ ret = prev.ret

\* a run with maxiter = 2 and the same run with maxiter = 1, both returning
\* niter = 3 for the first sample
C25_Witness ==
    /\ BothOver /\ MaxiterChanged /\ prev.inp.maxiter = 2 /\ inp.maxiter = 1
    /\ pc = "done" /\ prev.pc = "done"
    /\ niter[1] = 3 /\ prev.niter[1] = 3 /\ AllFinite(sol[1])

=============================================================================
